---- MODULE Spec2Model ----
(***************************************************************************)
(* Night-Illumination-Model: the illumination composition engine.          *)
(*                                                                         *)
(* The program computes with IEEE double precision floats.  The model      *)
(* computes with decimal floating point numbers of Limbs limbs in base     *)
(* Base (17 to 20 significant decimal digits, a little more than a         *)
(* double), and models the library functions the code calls (np.sin,       *)
(* np.tan, np.log, np.exp, np.power, np.radians, np.degrees) by their      *)
(* series, so that every formula of the source is evaluated, not looked    *)
(* up.  np.exp keeps the double's range: it returns 0.0 below              *)
(* ExpUnderflowArg and inf above ExpOverflowArg.                           *)
(***************************************************************************)
EXTENDS Integers, Sequences, FiniteSets, TLC

----------------------------------------------------------------------------
(* Natural numbers as little-endian sequences of limbs in base Base.       *)

Base == 10000

Limbs == 5

Max(a, b) == IF a >= b THEN a ELSE b

Min(a, b) == IF a <= b THEN a ELSE b

Zeros(n) == [i \in 1..n |-> 0]

SetMax(S) == CHOOSE x \in S : \A y \in S : y <= x

SetMin(S) == CHOOSE x \in S : \A y \in S : x <= y

Limb(a, i) == IF i >= 1 /\ i <= Len(a) THEN a[i] ELSE 0

\* The loops carry their running values as arguments and read them in the
\* guard, so that each step is evaluated before the next one starts.

RECURSIVE CarryLoop(_, _, _)
CarryLoop(s, c, acc) ==
    IF Len(acc) >= Len(s) /\ c = 0 THEN acc
    ELSE LET v == Limb(s, Len(acc) + 1) + c
         IN CarryLoop(s, v \div Base, Append(acc, v % Base))

\* the limbs of the number whose limb sums are s, with carry c coming in
Carry(s, c) == CarryLoop(s, c, <<>>)

NatTrim(a) ==
    LET nz == {i \in 1..Len(a) : a[i] # 0}
    IN IF nz = {} THEN <<>> ELSE SubSeq(a, 1, SetMax(nz))

NatCmp(a, b) ==
    LET df == {i \in 1..Max(Len(a), Len(b)) : Limb(a, i) # Limb(b, i)}
    IN IF df = {} THEN 0
       ELSE IF Limb(a, SetMax(df)) > Limb(b, SetMax(df)) THEN 1 ELSE -1

NatAdd(a, b) == Carry([i \in 1..Max(Len(a), Len(b)) |-> Limb(a, i) + Limb(b, i)], 0)

RECURSIVE BorrowLoop(_, _, _, _)
BorrowLoop(a, b, c, acc) ==
    IF Len(acc) >= Len(a) THEN acc
    ELSE LET v == a[Len(acc) + 1] - Limb(b, Len(acc) + 1) - c
         IN IF v < 0 THEN BorrowLoop(a, b, 1, Append(acc, v + Base))
                     ELSE BorrowLoop(a, b, 0, Append(acc, v))

\* a - b for a >= b
NatSub(a, b) == BorrowLoop(a, b, 0, <<>>)

\* the sum of the a[i] * b[j] with i + j = k + 1, for a of at most 5 limbs
SumProd(a, b, k) ==
    Limb(a, 1) * Limb(b, k) + Limb(a, 2) * Limb(b, k - 1) + Limb(a, 3) * Limb(b, k - 2)
    + Limb(a, 4) * Limb(b, k - 3) + Limb(a, 5) * Limb(b, k - 4)

\* a * b for a of at most 5 limbs
NatMul(a, b) ==
    IF a = <<>> \/ b = <<>> THEN <<>>
    ELSE Carry([k \in 1..(Len(a) + Len(b) - 1) |-> SumProd(a, b, k)], 0)

NatMulSmall(a, k) == Carry([i \in 1..Len(a) |-> a[i] * k], 0)

RECURSIVE DivSmallLoop(_, _, _, _)
DivSmallLoop(a, k, r, acc) ==
    IF Len(acc) >= Len(a) THEN acc
    ELSE LET v == r * Base + a[Len(a) - Len(acc)]
         IN DivSmallLoop(a, k, v % k, <<v \div k>> \o acc)

\* a \div k for 0 < k <= 200000
NatDivSmall(a, k) == DivSmallLoop(a, k, 0, <<>>)

\* One limb of a quotient: v \div b for v < b * Base, where b has a top limb of
\* at least Base \div 2, so that the estimate from the top limbs is at most 2
\* too large (Knuth, algorithm D).
QuotDigit(v, b) ==
    LET qh == Min(Base - 1, (Limb(v, Len(b) + 1) * Base + Limb(v, Len(b))) \div b[Len(b)])
    IN SetMax({d \in {qh, qh - 1, qh - 2} : d >= 0 /\ NatCmp(NatMulSmall(b, d), v) <= 0})

\* One step brings down the next limb of a (v), finds the quotient's limb (q)
\* and leaves the remainder (w); the guards read them in this order, so that
\* each one is evaluated before the next one is started.
RECURSIVE LongDivLoop(_, _, _, _)
LongDivLoop(a, b, r, acc) ==
    IF Len(acc) >= Len(a) - Len(b) + 1 THEN acc
    ELSE LET v == NatTrim(<<a[Len(a) - Len(b) + 1 - Len(acc)]>> \o r)
             q == QuotDigit(v, b)
             w == NatTrim(NatSub(v, NatMulSmall(b, q)))
         IN IF Len(v) >= 0 /\ q >= 0 /\ Len(w) >= 0
            THEN LongDivLoop(a, b, w, <<q>> \o acc)
            ELSE <<>>

\* a \div b for b with a non-zero top limb and Len(a) >= Len(b)
NatDiv(a, b) ==
    LET f  == Base \div (b[Len(b)] + 1)
        an == NatMulSmall(a, f)
        bn == NatMulSmall(b, f)
    IN IF Len(an) >= 0 /\ Len(bn) >= 0
       THEN LongDivLoop(an, bn, NatTrim(SubSeq(an, Len(an) - Len(bn) + 2, Len(an))), <<>>)
       ELSE <<>>

----------------------------------------------------------------------------
(* Floating point numbers: sg * (value of the limbs m) * Base^e, with m of *)
(* exactly Limbs limbs and, unless the number is zero, a non-zero top      *)
(* limb, so that two numbers are equal exactly when their records are.     *)
(* k is "fin", "inf" (float('inf'), signed by sg) or "nan".  Results are   *)
(* rounded to the nearest representable number, as the doubles are.        *)

Zero == [k |-> "fin", sg |-> 0, m |-> Zeros(Limbs), e |-> 0]

Inf(s) == [k |-> "inf", sg |-> s, m |-> Zeros(Limbs), e |-> 0]

NaN == [k |-> "nan", sg |-> 0, m |-> Zeros(Limbs), e |-> 0]

RECURSIVE Norm(_, _, _)
Norm(s, nat, e) ==
    LET t == NatTrim(nat)
        n == Len(t)
    IN IF n = 0 \/ s = 0 THEN Zero
       ELSE IF n > Limbs
            THEN IF 2 * t[n - Limbs] >= Base
                 THEN Norm(s, Carry(<<t[n - Limbs + 1] + 1>> \o SubSeq(t, n - Limbs + 2, n), 0),
                           e + (n - Limbs))
                 ELSE [k |-> "fin", sg |-> s, m |-> SubSeq(t, n - Limbs + 1, n),
                       e |-> e + (n - Limbs)]
       ELSE IF n = Limbs
            THEN [k |-> "fin", sg |-> s, m |-> t, e |-> e]
            ELSE [k |-> "fin", sg |-> s, m |-> Zeros(Limbs - n) \o t,
                  e |-> e - (Limbs - n)]

\* the decimal literal n * Base^e, for an integer n
FDec(n, e) ==
    IF n = 0 THEN Zero
    ELSE IF n > 0 THEN Norm(1, Carry(<<n>>, 0), e)
    ELSE Norm(-1, Carry(<<-n>>, 0), e)

FInt(n) == FDec(n, 0)

One == FInt(1)

FNeg(a) == [a EXCEPT !.sg = -a.sg]

FAbs(a) == [a EXCEPT !.sg = IF a.sg = 0 THEN 0 ELSE 1]

FMul(a, b) ==
    IF a.k = "fin" /\ b.k = "fin"
    THEN IF a.sg = 0 \/ b.sg = 0 THEN Zero
         ELSE Norm(a.sg * b.sg, NatMul(a.m, b.m), a.e + b.e)
    ELSE IF a.k = "nan" \/ b.k = "nan" \/ a.sg * b.sg = 0 THEN NaN
    ELSE Inf(a.sg * b.sg)

\* a + b for finite a and b that are not zero
AddFinite(a, b) ==
    IF a.e - b.e > Limbs + 1 THEN a
    ELSE IF b.e - a.e > Limbs + 1 THEN b
    ELSE LET e0 == Min(a.e, b.e)
             ma == Zeros(a.e - e0) \o a.m
             mb == Zeros(b.e - e0) \o b.m
             c  == NatCmp(ma, mb)
         IN IF a.sg = b.sg THEN Norm(a.sg, NatAdd(ma, mb), e0)
            ELSE IF c = 0 THEN Zero
            ELSE IF c > 0 THEN Norm(a.sg, NatSub(ma, mb), e0)
            ELSE Norm(b.sg, NatSub(mb, ma), e0)

FAdd(a, b) ==
    IF a.k = "fin" /\ b.k = "fin"
    THEN IF a.sg = 0 THEN b ELSE IF b.sg = 0 THEN a ELSE AddFinite(a, b)
    ELSE IF a.k = "nan" \/ b.k = "nan" THEN NaN
    ELSE IF a.k = "inf" THEN (IF b.k = "inf" /\ b.sg # a.sg THEN NaN ELSE a)
    ELSE b

FSub(a, b) == FAdd(a, FNeg(b))

FCmp(a, b) == FSub(a, b).sg

FLt(a, b) == FCmp(a, b) < 0

FLe(a, b) == FCmp(a, b) <= 0

FMax(a, b) == IF FLt(a, b) THEN b ELSE a

FDiv(a, b) ==
    IF a.k = "fin" /\ b.k = "fin"
    THEN IF b.sg = 0 THEN (IF a.sg = 0 THEN NaN ELSE Inf(a.sg))
         ELSE IF a.sg = 0 THEN Zero
         ELSE Norm(a.sg * b.sg, NatDiv(Zeros(Limbs + 1) \o a.m, b.m),
                   a.e - b.e - (Limbs + 1))
    ELSE IF a.k = "nan" \/ b.k = "nan" \/ (a.k = "inf" /\ b.k = "inf") THEN NaN
    ELSE IF a.k = "inf" THEN Inf(IF b.sg < 0 THEN -a.sg ELSE a.sg)
    ELSE Zero

\* a / n for an integer 0 < n <= 200000
FDivInt(a, n) ==
    IF a.k # "fin" \/ a.sg = 0 THEN a
    ELSE Norm(a.sg, NatDivSmall(Zeros(2) \o a.m, n), a.e - 2)

\* a rounded towards zero to an integer
FTrunc(a) ==
    IF a.k # "fin" \/ a.sg = 0 \/ a.e >= 0 THEN a
    ELSE Norm(a.sg, [i \in 1..Limbs |-> IF a.e + (i - 1) < 0 THEN 0 ELSE a.m[i]], a.e)

----------------------------------------------------------------------------
(* The library functions the code calls.  A value that is used more than   *)
(* once is passed as an argument, and the series carry their running term  *)
(* and sum as arguments, so that each is computed once.                    *)

PI == [k |-> "fin", sg |-> 1, m |-> <<7932, 3589, 9265, 1415, 3>>, e |-> -4]

LN2 == [k |-> "fin", sg |-> 1, m |-> <<942, 9453, 559, 4718, 6931>>, e |-> -5]

\* ln(Base)
LNBase == [k |-> "fin", sg |-> 1, m |-> <<1827, 1976, 4037, 2103, 9>>, e |-> -4]

Half == FDec(5000, -1)

Two == FInt(2)

TwoPi == FMul(Two, PI)

ExpTerms == 16

ExpHalvings == 14

LnShifts == 14

LnTerms == 20

TrigTerms == 44

\* np.exp of a double: 0.0 below ln(2^-1075), inf above ln(2^1024)
ExpUnderflowArg == FSub(FInt(-745), FDec(13321910, -2))

ExpOverflowArg == FAdd(FInt(709), FDec(78271200, -2))

\* the integer part of a finite a with 0 <= a < Base^2
IntPart(a) == Limb(a.m, 1 - a.e) + Base * Limb(a.m, 2 - a.e)

\* b is too small to change a when added to it
Negligible(b, a) == b.sg = 0 \/ (a.sg # 0 /\ a.e - b.e > Limbs + 1)

\* 1 + x + x^2/2! + ...: t is the term of index n and s the sum of the terms
\* before it
RECURSIVE ExpSeries(_, _, _, _)
ExpSeries(x, n, t, s) ==
    IF Negligible(t, s) \/ n > ExpTerms THEN s
    ELSE ExpSeries(x, n + 1, FMul(t, FDivInt(x, n + 1)), FAdd(s, t))

\* v^(2^j)
RECURSIVE Squarings(_, _)
Squarings(v, j) ==
    IF v.sg = 0 \/ j = 0 THEN v
    ELSE Squarings(FMul(v, v), j - 1)

\* the least j with |x| * 16 < 2^j, for |x| < 1000
Halvings(x) == SetMin({i \in 0..ExpHalvings : IntPart(FMul(FAbs(x), FInt(16))) < 2^i})

\* exp(r)^(2^j) for |r| < 1/16
ExpScaled(r, j) == Squarings(ExpSeries(r, 1, r, One), j)

\* exp(x) = exp(x / 2^j)^(2^j) with |x / 2^j| < 1/16, for |x| < 1000
ExpReduce(x, j) == ExpScaled(FDivInt(x, 2^j), j)

Exp(x) ==
    IF x.k = "nan" THEN NaN
    ELSE IF x.k = "inf" THEN (IF x.sg < 0 THEN Zero ELSE Inf(1))
    ELSE IF FLt(x, ExpUnderflowArg) THEN Zero
    ELSE IF FLt(ExpOverflowArg, x) THEN Inf(1)
    ELSE ExpReduce(x, Halvings(x))

\* 1 + z2/3 + z2^2/5 + ...: p is z2^n and s the sum of the terms before it
RECURSIVE AtanhSeries(_, _, _, _)
AtanhSeries(z2, n, p, s) ==
    IF Negligible(p, s) \/ n > LnTerms THEN s
    ELSE AtanhSeries(z2, n + 1, FMul(p, z2), FAdd(s, FDivInt(p, 2 * n + 1)))

\* 2 atanh(z)
Atanh2(z, z2) == FMul(Two, FMul(z, AtanhSeries(z2, 1, z2, One)))

LnOfRatio(z) == IF z.k = "nan" THEN NaN ELSE Atanh2(z, FMul(z, z))

\* ln(y) = 2 atanh((y - 1) / (y + 1)), for y near 1
LnCore(y) == LnOfRatio(FDiv(FSub(y, One), FAdd(y, One)))

\* the least n with y / 2^n <= 4/3, for the two top limbs v of y
LnShift(v) == SetMin({i \in 0..LnShifts : 3 * (v + 1) <= 4 * 2^i * Base})

\* ln(x) = ex ln(Base) + n ln(2) + ln(y / 2^n) for x = y * Base^ex with y in
\* [1, Base) and y / 2^n in [2/3, 4/3]
LnParts(x, ex, n) ==
    FAdd(FAdd(FMul(FInt(ex), LNBase), FMul(FInt(n), LN2)),
         LnCore(FDivInt([x EXCEPT !.e = 1 - Limbs], 2^n)))

LnReduce(x) ==
    IF x.e + (Limbs - 1) = -1 /\ x.m[Limbs] >= 6667 THEN LnCore(x)
    ELSE LnParts(x, x.e + (Limbs - 1), LnShift(x.m[Limbs] * Base + x.m[Limbs - 1]))

Ln(x) ==
    IF x.k = "nan" \/ x.sg < 0 THEN NaN
    ELSE IF x.sg = 0 THEN Inf(-1)
    ELSE IF x.k = "inf" THEN Inf(1)
    ELSE LnReduce(x)

\* exp(y * l) for l = ln(x)
PowerOfLn(y, l) == IF l.k = "nan" THEN NaN ELSE Exp(FMul(y, l))

\* np.power for the cases the code has: a finite x >= 0
Power(x, y) ==
    IF x.k # "fin" \/ x.sg < 0 THEN NaN
    ELSE IF x.sg = 0 THEN (IF y.sg < 0 THEN Inf(1) ELSE IF y.sg = 0 THEN One ELSE Zero)
    ELSE PowerOfLn(y, Ln(x))

\* q rounded to the nearest integer
RoundHalf(q) == FTrunc(FAdd(q, IF q.sg < 0 THEN FNeg(Half) ELSE Half))

\* x brought into [-pi, pi] by a multiple of 2 pi
ReduceAngle(x) ==
    IF FLe(FAbs(x), PI) THEN x
    ELSE FSub(x, FMul(TwoPi, RoundHalf(FDiv(x, TwoPi))))

\* the term after t: -t * x2 / (i * (i + 1))
TrigTerm(t, x2, i) == FNeg(FDivInt(FMul(t, x2), i * (i + 1)))

\* the sine's series (from the term x of index 1) and the cosine's (from the
\* term 1 of index 0): t is the term of index i and s the sum of the terms
\* before it
RECURSIVE TrigSeries(_, _, _, _)
TrigSeries(x2, i, t, s) ==
    IF Negligible(t, s) \/ i > TrigTerms THEN s
    ELSE TrigSeries(x2, i + 2, TrigTerm(t, x2, i + 1), FAdd(s, t))

SinReduced(r) == IF r.k = "nan" THEN NaN ELSE TrigSeries(FMul(r, r), 1, r, Zero)

CosReduced(r) == IF r.k = "nan" THEN NaN ELSE TrigSeries(FMul(r, r), 0, One, Zero)

Sin(x) == IF x.k # "fin" THEN NaN ELSE SinReduced(ReduceAngle(x))

Cos(x) == IF x.k # "fin" THEN NaN ELSE CosReduced(ReduceAngle(x))

Tan(x) == FDiv(Sin(x), Cos(x))

Radians(d) == FMul(d, FDivInt(PI, 180))

Degrees(r) == FMul(r, FDiv(FInt(180), PI))

----------------------------------------------------------------------------
(* atmosphere.py: class AtmosphereModel.  self is the model object: the    *)
(* record of its attributes.                                               *)

WAVELENGTH_UM == FDec(5550, -1)

C_RAYLEIGH == FMul(FDec(873500, -2), Power(WAVELENGTH_UM, FDec(-40800, -1)))

C_OZONE == FDec(2975000, -2)

AtmosphereModel ==
    [WAVELENGTH_UM |-> WAVELENGTH_UM, C_RAYLEIGH |-> C_RAYLEIGH, C_OZONE |-> C_OZONE]

\* the air mass with the zenith angle's sine in place of the altitude's
air_mass_of_zenith_angle(self, altitude_deg) ==
    IF FLt(altitude_deg, FDec(-5000, -1)) THEN Inf(1)
    ELSE FDiv(One,
              FAdd(Cos(Radians(altitude_deg)),
                   FMul(FDec(1500, -1),
                        Power(FAdd(altitude_deg, FDec(38850, -1)), FDec(-12530, -1)))))

\* 1 / denominator, with denominator = sin(alpha_rad) + 0.15 (altitude_deg +
\* 3.885)^-1.253 and alpha_rad = radians(altitude_deg)
_calculate_air_mass(self, altitude_deg) ==
    IF FLt(altitude_deg, FDec(-5000, -1)) THEN Inf(1)
    ELSE FDiv(One,
              FAdd(Sin(Radians(altitude_deg)),
                   FMul(FDec(1500, -1),
                        Power(FAdd(altitude_deg, FDec(38850, -1)), FDec(-12530, -1)))))

\* the extinction coefficient with the aerosol term of the default turbidity
\* 3.0 whatever the turbidity is
extinction_of_default_turbidity(self, turbidity) ==
    FAdd(FAdd(self.C_RAYLEIGH,
              FMul(FSub(FMul(FDec(4608000, -2), FInt(3)), FDec(4586000, -2)),
                   Power(self.WAVELENGTH_UM, FDec(-13000, -1)))),
         self.C_OZONE)

\* c_total = C_RAYLEIGH + c_aerosol + C_OZONE, with c_aerosol = (0.04608
\* turbidity - 0.04586) WAVELENGTH_UM^-1.3
calculate_extinction_coefficient(self, turbidity) ==
    FAdd(FAdd(self.C_RAYLEIGH,
              FMul(FSub(FMul(FDec(4608000, -2), turbidity), FDec(4586000, -2)),
                   Power(self.WAVELENGTH_UM, FDec(-13000, -1)))),
         self.C_OZONE)

\* the transmittance without the early return for a body at or below the
\* horizon
transmittance_without_horizon_guard(self, altitude_deg, turbidity) ==
    Exp(FMul(FNeg(calculate_extinction_coefficient(self, turbidity)),
             _calculate_air_mass(self, altitude_deg)))

\* the transmittance with exp(c * m): the sign of the exponent lost
transmittance_with_positive_exponent(self, altitude_deg, turbidity) ==
    IF FLe(altitude_deg, Zero) THEN Zero
    ELSE Exp(FMul(calculate_extinction_coefficient(self, turbidity),
                  _calculate_air_mass(self, altitude_deg)))

\* exp(-c * m) for the air mass m and the extinction coefficient c
get_transmittance(self, altitude_deg, turbidity) ==
    IF FLe(altitude_deg, Zero) THEN Zero
    ELSE Exp(FMul(FNeg(calculate_extinction_coefficient(self, turbidity)),
                  _calculate_air_mass(self, altitude_deg)))

\* the step function with >= in place of >
visibility_to_turbidity_inclusive(visibility_km) ==
    IF FLe(FInt(100), visibility_km) THEN FInt(2)
    ELSE IF FLe(FInt(20), visibility_km) THEN FInt(3)
    ELSE IF FLe(FInt(10), visibility_km) THEN FInt(4)
    ELSE IF FLe(FInt(5), visibility_km) THEN FInt(7)
    ELSE IF FLe(FInt(2), visibility_km) THEN FInt(15)
    ELSE FInt(30)

visibility_to_turbidity(visibility_km) ==
    IF FLt(FInt(100), visibility_km) THEN FInt(2)
    ELSE IF FLt(FInt(20), visibility_km) THEN FInt(3)
    ELSE IF FLt(FInt(10), visibility_km) THEN FInt(4)
    ELSE IF FLt(FInt(5), visibility_km) THEN FInt(7)
    ELSE IF FLt(FInt(2), visibility_km) THEN FInt(15)
    ELSE FInt(30)

----------------------------------------------------------------------------
(* astrometry.py: class AstrometryEngine.  The ephemeris and the vector    *)
(* geometry of skyfield are not modelled: an instant seen by an observer   *)
(* is given by what the engine computes for it: the record `time` of the   *)
(* terrestrial time tt (a Julian date), the Moon's phase angle in radians  *)
(* and the Earth-Moon distance in km, and the ephemeris the engine loads,  *)
(* the altitudes in degrees of the Sun and the Moon at a latitude and a    *)
(* time.                                                                   *)
(* Of the triple (altitude, azimuth, distance) the engine returns, the     *)
(* callers use the altitude.                                               *)

\* the latitudes of the observers (Prague, Cape Town) and the Julian dates
\* of the instants the ephemeris is read at
\* the function f as the table of its values
Tabulated(f) == f @@ <<>>

NorthLatitude == FDec(500755, -1)

SouthLatitude == FDec(-339249, -1)

JanuaryDay == 2460311

JulyNight == 2460493

\* altitudes in thousandths of a degree.  In January the Sun and the Moon
\* are up in the north and around the horizon in the south; in July the Sun
\* is just below the horizon, the Moon near the zenith in the north and on
\* the horizon in the south
Ephemeris(north_january, south_january, north_july, south_july) ==
    Tabulated([g \in {NorthLatitude, SouthLatitude} \X {FInt(JanuaryDay), FInt(JulyNight)} |->
                  FDec(10 * (IF g[2] = FInt(JanuaryDay)
                             THEN IF g[1] = NorthLatitude THEN north_january ELSE south_january
                             ELSE IF g[1] = NorthLatitude THEN north_july ELSE south_july),
                       -1)])

SunAltitude == Ephemeris(45000, -1000, -500, -250)

MoonAltitude == Ephemeris(45000, 1000, 89900, 0)

calculate_sun_position(self, observer, time) == SunAltitude[<<observer.latitude, time.tt>>]

calculate_moon_position(self, observer, time) == MoonAltitude[<<observer.latitude, time.tt>>]

----------------------------------------------------------------------------
(* sources/sun.py: class SunModel                                          *)

SOLAR_CONSTANT_LUX == FInt(127500)

ECCENTRICITY == FDec(1672000, -2)

SunModel == [SOLAR_CONSTANT_LUX |-> SOLAR_CONSTANT_LUX, ECCENTRICITY |-> ECCENTRICITY]

\* a ** 2
Square(a) == FMul(a, a)

\* e_st = SOLAR_CONSTANT_LUX (numerator / denominator), with numerator = (1 +
\* ECCENTRICITY term)^2, term = cos(2 pi (jd - 2) / 365.2), jd = time.tt and
\* denominator = 1 - ECCENTRICITY^2
sun_get_extraterrestrial_illuminance(self, time) ==
    FMul(self.SOLAR_CONSTANT_LUX,
         FDiv(Square(FAdd(One,
                          FMul(self.ECCENTRICITY,
                               Cos(FDiv(FMul(FMul(Two, PI), FSub(time.tt, Two)),
                                        FDec(3652000, -1)))))),
              FSub(One, Square(self.ECCENTRICITY))))

----------------------------------------------------------------------------
(* sources/moon.py: class MoonModel                                        *)

MOON_RADIUS_KM == FDec(17374000, -1)

SOLAR_ILLUMINANCE_LUX == FInt(127500)

SOLAR_IRRADIANCE_WM2 == FInt(1300)

MOON_ALBEDO == FDec(1200, -1)

LAMBERT_SPHERE_FACTOR == FDiv(FInt(2), FInt(3))

MoonModel ==
    [MOON_RADIUS_KM |-> MOON_RADIUS_KM, SOLAR_ILLUMINANCE_LUX |-> SOLAR_ILLUMINANCE_LUX,
     SOLAR_IRRADIANCE_WM2 |-> SOLAR_IRRADIANCE_WM2, MOON_ALBEDO |-> MOON_ALBEDO,
     LAMBERT_SPHERE_FACTOR |-> LAMBERT_SPHERE_FACTOR]

\* the Sun-Moon-Earth angle the engine's positions give: 0 at full Moon and
\* pi at new Moon
calculate_phase_angle(self, time) == time.phase

\* moon.py lines 58-62, for phi_deg = degrees(phase_angle_rad)
\* the surge without the floor max(val, 1.0)
surge_without_floor(phi_deg) ==
    IF FLe(phi_deg, FInt(7))
    THEN FSub(FDec(12700, -1), FMul(FDec(450, -1), FSub(FAbs(phi_deg), One)))
    ELSE One

\* the surge with the slope 0.04 per degree in place of 0.045
surge_with_gentler_slope(phi_deg) ==
    IF FLe(phi_deg, FInt(7))
    THEN FMax(FSub(FDec(12700, -1), FMul(FDec(400, -1), FSub(FAbs(phi_deg), One))), One)
    ELSE One

SurgeOfDegrees(phi_deg) ==
    IF FLe(phi_deg, FInt(7))
    THEN FMax(FSub(FDec(12700, -1), FMul(FDec(450, -1), FSub(FAbs(phi_deg), One))), One)
    ELSE One

_calculate_opposition_surge(self, phase_angle_rad) == SurgeOfDegrees(Degrees(phase_angle_rad))

\* the 1e-4 of the guards
epsilon == FDec(1, -1)

\* 1 - term1 term2 term3 with term1 = sin(p / 2), term2 = tan(p / 2) and term3
\* = ln(1 / tan(p / 4)): the phase function, which the code writes out twice
\* (moon.py lines 75-79 and 101-104)
PhaseFunction(p) ==
    FSub(One,
         FMul(FMul(Sin(FDivInt(p, 2)), Tan(FDivInt(p, 2))),
              Ln(FDiv(One, Tan(FDivInt(p, 4))))))

\* moon.py lines 72-81, for earth_phase_p = pi - moon_phase_angle
EarthshineOfPhase(earth_phase_p) ==
    IF FLt(earth_phase_p, epsilon) \/ FLt(FSub(PI, epsilon), earth_phase_p)
    THEN Zero
    ELSE FMax(Zero, FMul(FDec(950, -1), PhaseFunction(earth_phase_p)))

_calculate_earthshine_wm2(self, moon_phase_angle) ==
    EarthshineOfPhase(FSub(PI, moon_phase_angle))

\* moon.py lines 95-104
\* the phase factor without the guards at 0 and pi
phase_factor_unguarded(phi) == PhaseFunction(phi)

PhaseFactor(phi) ==
    IF FLt(phi, epsilon) THEN One
    ELSE IF FLt(FSub(PI, epsilon), phi) THEN Zero
    ELSE PhaseFunction(phi)

\* the composition with Earthshine subtracted from the reflected sunlight
moon_illuminance_minus_earthshine(self, phi, dist_km) ==
    FMul(FMul(FMul(FMul(self.LAMBERT_SPHERE_FACTOR, self.MOON_ALBEDO),
                   _calculate_opposition_surge(self, phi)),
              Square(FDiv(self.MOON_RADIUS_KM, dist_km))),
         FSub(FMul(self.SOLAR_ILLUMINANCE_LUX, PhaseFactor(phi)),
              FMul(_calculate_earthshine_wm2(self, phi),
                   FDiv(self.SOLAR_ILLUMINANCE_LUX, self.SOLAR_IRRADIANCE_WM2))))

\* moon.py lines 89-124: LAMBERT_SPHERE_FACTOR MOON_ALBEDO o_eff geometry_factor
\* (e_reflected_sun + e_earthshine_lux)
MoonIlluminance(self, phi, dist_km) ==
    FMul(FMul(FMul(FMul(self.LAMBERT_SPHERE_FACTOR, self.MOON_ALBEDO),
                   _calculate_opposition_surge(self, phi)),
              Square(FDiv(self.MOON_RADIUS_KM, dist_km))),
         FAdd(FMul(self.SOLAR_ILLUMINANCE_LUX, PhaseFactor(phi)),
              FMul(_calculate_earthshine_wm2(self, phi),
                   FDiv(self.SOLAR_ILLUMINANCE_LUX, self.SOLAR_IRRADIANCE_WM2))))

moon_get_extraterrestrial_illuminance(self, time) ==
    MoonIlluminance(self, calculate_phase_angle(self, time), time.moon_dist)

----------------------------------------------------------------------------
(* scene.py: class IlluminationScene                                       *)

STAR_ILLUMINANCE_EXO_LUX == FDec(27140, -2)

\* the object IlluminationScene() constructs
IlluminationScene ==
    [engine |-> "AstrometryEngine", sun_model |-> SunModel, moon_model |-> MoonModel,
     atmos_model |-> AtmosphereModel, STAR_ILLUMINANCE_EXO_LUX |-> STAR_ILLUMINANCE_EXO_LUX]

----------------------------------------------------------------------------
(* The arguments the calls are made with, and the values of the numeric    *)
(* operations on them.  An operation of the models is a function of its    *)
(* arguments and of the object it is called on; its values on the          *)
(* arguments below are computed once, from the definitions above, and read *)
(* from the table by every call with these arguments.                      *)

\* degrees, from thousandths of a degree
MilliDeg(n) == FDec(n * 10, -1)

\* altitudes: below the horizon and below the -0.5 degrees of the air mass,
\* the horizon, just above it, and up to the zenith
AltitudeGrid ==
    {MilliDeg(n) : n \in {-90000, -1000, -500, -250, 0, 1, 1000, 45000, 89900, 89980, 90000}}

\* clean air to fog, two turbidities beyond the meaningful range, and one
\* invalid negative turbidity
TurbidityGrid == {FInt(n) : n \in {-1, 0, 3, 30, 300, 10000}}

\* visibilities in km, on and around the thresholds
VisibilityGrid ==
    {FDec(n * 1000, -1) : n \in {0, 10, 20, 21, 50, 51, 100, 101, 200, 201, 1000, 1001, 3000}}

TransmittanceTable ==
    Tabulated([g \in {AtmosphereModel} \X AltitudeGrid \X TurbidityGrid |->
                  get_transmittance(g[1], g[2], g[3])])

Transmittance(self, altitude_deg, turbidity) ==
    TransmittanceTable[<<self, altitude_deg, turbidity>>]

----------------------------------------------------------------------------
(* The state: the scene object with its models, the frames of the calls of *)
(* calculate_illumination in progress on it, one per thread, and the last  *)
(* two completed calls of the models' operations with what they returned.  *)

VARIABLES scene, frames, cur, prev

vars == <<scene, frames, cur, prev>>

\* the threads calling into one scene
Threads == 2

ThreadIds == 1..Threads

IdleFrame == [pc |-> "idle"]

NoCall == [op |-> "none", args |-> <<>>, ret |-> Zero]

Init ==
    /\ scene = IlluminationScene
    /\ frames = [th \in ThreadIds |-> IdleFrame]
    /\ cur = NoCall
    /\ prev = NoCall

\* a call of a model's operation has returned
Returned(call) ==
    /\ prev' = cur
    /\ cur' = call

GetTransmittance ==
    \E altitude_deg \in AltitudeGrid, turbidity \in TurbidityGrid :
        /\ Returned([op |-> "get_transmittance", args |-> <<altitude_deg, turbidity>>,
                     ret |-> Transmittance(scene.atmos_model, altitude_deg, turbidity)])
        /\ UNCHANGED <<scene, frames>>

VisibilityToTurbidity ==
    \E visibility_km \in VisibilityGrid :
        /\ Returned([op |-> "visibility_to_turbidity", args |-> <<visibility_km>>,
                     ret |-> visibility_to_turbidity(visibility_km)])
        /\ UNCHANGED <<scene, frames>>

NextAtmosphere == GetTransmittance \/ VisibilityToTurbidity

SpecAtmosphere == Init /\ [][NextAtmosphere]_vars

----------------------------------------------------------------------------
(* The atmosphere's claims, under SpecAtmosphere.                          *)

IsTransmittance(call) == call.op = "get_transmittance"

IsVisibility(call) == call.op = "visibility_to_turbidity"

\* the last two calls are get_transmittance(a1, T1) and then
\* get_transmittance(a2, T2)
TransmittancePair == IsTransmittance(prev) /\ IsTransmittance(cur)

\* the smallest result that is surely a normal double: 1e-300
NormalResult == FDec(1, -75)

\* C2: get_transmittance returns exactly 0 for every altitude <= 0 and every
\* turbidity, also below the -0.5 degrees where the air mass is infinite: 0,
\* never NaN
C2_ZeroAtOrBelowHorizon ==
    (IsTransmittance(cur) /\ FLe(cur.args[1], Zero)) => cur.ret = Zero

\* a call below -0.5 degrees, with the invalid negative turbidity, returned 0
C2_Witness ==
    /\ IsTransmittance(cur)
    /\ FLt(cur.args[1], FDec(-5000, -1))
    /\ cur.args[2] = FInt(-1)
    /\ cur.ret = Zero

\* C4 as claimed: for altitude in (0, 90] and turbidity >= 0 the transmittance
\* is strictly between 0 and 1
C4_StrictlyBetweenZeroAndOne ==
    (/\ IsTransmittance(cur)
     /\ FLt(Zero, cur.args[1]) /\ FLe(cur.args[1], FInt(90))
     /\ FLe(Zero, cur.args[2]))
    => (FLt(Zero, cur.ret) /\ FLt(cur.ret, One))

\* C4 as amended: for altitude in (0, 90] and turbidity >= 0 the transmittance
\* is in [0, 1), and it is above 0 for every turbidity up to 30
C4_BelowOneAndPositiveUpTo30 ==
    (/\ IsTransmittance(cur)
     /\ FLt(Zero, cur.args[1]) /\ FLe(cur.args[1], FInt(90))
     /\ FLe(Zero, cur.args[2]))
    => /\ FLe(Zero, cur.ret) /\ FLt(cur.ret, One)
       /\ FLe(cur.args[2], FInt(30)) => FLt(Zero, cur.ret)

\* the thickest valid air: just above the horizon at turbidity 30, a result
\* above 0
C4_Witness ==
    /\ IsTransmittance(cur)
    /\ cur.args = <<MilliDeg(1), FInt(30)>>
    /\ FLt(Zero, cur.ret)

\* C5 as claimed: for any fixed altitude and turbidities T1 < T2,
\* get_transmittance(alt, T1) > get_transmittance(alt, T2)
C5_StrictlyDecreasingInTurbidity ==
    (/\ TransmittancePair
     /\ prev.args[1] = cur.args[1]
     /\ FLt(prev.args[2], cur.args[2]))
    => FLt(cur.ret, prev.ret)

\* C5 as amended: for a fixed altitude above the horizon and T1 < T2 the
\* transmittance at T1 is above the one at T2 when the latter is at least
\* 1e-300, and not below it otherwise; at or below the horizon both are 0
C5_DecreasingAboveHorizon ==
    (/\ TransmittancePair
     /\ prev.args[1] = cur.args[1]
     /\ FLt(prev.args[2], cur.args[2]))
    => IF FLe(cur.args[1], Zero) THEN prev.ret = Zero /\ cur.ret = Zero
       ELSE IF FLe(NormalResult, cur.ret) THEN FLt(cur.ret, prev.ret)
       ELSE FLe(cur.ret, prev.ret)

\* the same altitude above the horizon at turbidity 3 and then 30
C5_Witness ==
    /\ TransmittancePair
    /\ prev.args = <<FInt(45), FInt(3)>> /\ cur.args = <<FInt(45), FInt(30)>>
    /\ FLt(cur.ret, prev.ret)

\* the altitude up to which the transmittance is claimed to grow: 89.9
MonotoneUpTo == MilliDeg(89900)

\* C6 as claimed: for any fixed turbidity and altitudes a1 < a2 <= 90,
\* get_transmittance(a1, T) < get_transmittance(a2, T)
C6_StrictlyIncreasingInAltitude ==
    (/\ TransmittancePair
     /\ prev.args[2] = cur.args[2]
     /\ FLt(prev.args[1], cur.args[1]) /\ FLe(cur.args[1], FInt(90)))
    => FLt(prev.ret, cur.ret)

\* C6 as amended: for a fixed turbidity >= 0 and altitudes a1 < a2 <= 89.9
\* the transmittance at a1 is below the one at a2 when a2 is above the horizon
\* and the latter is at least 1e-300, and not above it otherwise; when a2 is at
\* or below the horizon both are 0
C6_IncreasingUpTo89_9 ==
    (/\ TransmittancePair
     /\ prev.args[2] = cur.args[2] /\ FLe(Zero, cur.args[2])
     /\ FLt(prev.args[1], cur.args[1]) /\ FLe(cur.args[1], MonotoneUpTo))
    => IF FLe(cur.args[1], Zero) THEN prev.ret = Zero /\ cur.ret = Zero
       ELSE IF FLe(NormalResult, cur.ret) THEN FLt(prev.ret, cur.ret)
       ELSE FLe(prev.ret, cur.ret)

\* 45 and then 89.9 degrees at turbidity 3
C6_Witness ==
    /\ TransmittancePair
    /\ prev.args = <<FInt(45), FInt(3)>> /\ cur.args = <<MonotoneUpTo, FInt(3)>>
    /\ FLt(prev.ret, cur.ret)

\* the step function of C10, written by its intervals
TurbidityOfVisibility(visibility_km) ==
    CHOOSE turbidity \in {FInt(n) : n \in {2, 3, 4, 7, 15, 30}} :
        /\ turbidity = FInt(2) <=> FLt(FInt(100), visibility_km)
        /\ turbidity = FInt(3) <=> FLt(FInt(20), visibility_km) /\ FLe(visibility_km, FInt(100))
        /\ turbidity = FInt(4) <=> FLt(FInt(10), visibility_km) /\ FLe(visibility_km, FInt(20))
        /\ turbidity = FInt(7) <=> FLt(FInt(5), visibility_km) /\ FLe(visibility_km, FInt(10))
        /\ turbidity = FInt(15) <=> FLt(FInt(2), visibility_km) /\ FLe(visibility_km, FInt(5))
        /\ turbidity = FInt(30) <=> FLe(visibility_km, FInt(2))

\* C10: visibility_to_turbidity is the step function with strict thresholds
\* (> 100 km gives 2, > 20 gives 3, > 10 gives 4, > 5 gives 7, > 2 gives 15,
\* else 30), a visibility on a threshold falling in the higher-turbidity
\* bucket, and the result never decreases as the visibility decreases
C10_StepFunction ==
    /\ IsVisibility(cur) => cur.ret = TurbidityOfVisibility(cur.args[1])
    /\ (IsVisibility(prev) /\ IsVisibility(cur) /\ FLe(cur.args[1], prev.args[1]))
       => FLe(prev.ret, cur.ret)

\* a visibility of exactly 20 km after one of 20.1 km: turbidity 4 after 3
C10_Witness ==
    /\ IsVisibility(prev) /\ prev.args = <<FDec(201000, -1)>> /\ prev.ret = FInt(3)
    /\ IsVisibility(cur) /\ cur.args = <<FInt(20)>> /\ cur.ret = FInt(4)

----------------------------------------------------------------------------
(* The Moon model's operations, called on the scene's Moon model.          *)

\* phase angles in radians for _calculate_opposition_surge, given in
\* thousandths of a degree; the model's own phase angles are in [0, pi], the
\* method takes any float
SurgeGrid ==
    {Radians(MilliDeg(n)) :
        n \in {-30000, -7000, -1000, 0, 1000, 5000, 6900, 7000, 7001, 8000, 90000, 180000}}

\* phase angles in [0, pi]: the ends, inside and on the edge of the guard
\* windows of width epsilon, and in between
PhaseGrid ==
    {Zero, FDec(5000, -2), epsilon, FDec(2, -1), One, Two, FInt(3),
     FSub(PI, FDec(2, -1)), FSub(PI, epsilon), FSub(PI, FDec(5000, -2)), PI}

\* Earth-Moon distances in km: perigee, mean, apogee
DistanceGrid == {FInt(356500), FInt(384400), FInt(406700)}

\* the instant at which the engine finds the phase angle phi and the distance
MoonTime(phi, dist_km) == [phase |-> phi, moon_dist |-> dist_km]

OppositionSurgeTable ==
    Tabulated([g \in {MoonModel} \X SurgeGrid |-> _calculate_opposition_surge(g[1], g[2])])

OppositionSurge(self, phase_angle_rad) == OppositionSurgeTable[<<self, phase_angle_rad>>]

EarthshineTable ==
    Tabulated([g \in {MoonModel} \X PhaseGrid |-> _calculate_earthshine_wm2(g[1], g[2])])

Earthshine(self, moon_phase_angle) == EarthshineTable[<<self, moon_phase_angle>>]

PhaseFactorTable == Tabulated([phi \in PhaseGrid |-> PhaseFactor(phi)])

MoonIlluminanceTable ==
    Tabulated([g \in {MoonModel} \X PhaseGrid \X DistanceGrid |->
                  moon_get_extraterrestrial_illuminance(g[1], MoonTime(g[2], g[3]))])

MoonExo(self, time) == MoonIlluminanceTable[<<self, time.phase, time.moon_dist>>]

CalculateOppositionSurge ==
    \E phase_angle_rad \in SurgeGrid :
        /\ Returned([op |-> "_calculate_opposition_surge", args |-> <<phase_angle_rad>>,
                     ret |-> OppositionSurge(scene.moon_model, phase_angle_rad)])
        /\ UNCHANGED <<scene, frames>>

CalculateEarthshineWm2 ==
    \E moon_phase_angle \in PhaseGrid :
        /\ Returned([op |-> "_calculate_earthshine_wm2", args |-> <<moon_phase_angle>>,
                     ret |-> Earthshine(scene.moon_model, moon_phase_angle)])
        /\ UNCHANGED <<scene, frames>>

\* the call record keeps the local phase_factor next to the returned total
MoonGetExtraterrestrialIlluminance ==
    \E phi \in PhaseGrid, dist_km \in DistanceGrid :
        /\ Returned([op |-> "get_extraterrestrial_illuminance", args |-> <<phi, dist_km>>,
                     ret |-> MoonExo(scene.moon_model, MoonTime(phi, dist_km)),
                     phase_factor |-> PhaseFactorTable[phi]])
        /\ UNCHANGED <<scene, frames>>

NextMoon ==
    \/ CalculateOppositionSurge
    \/ CalculateEarthshineWm2
    \/ MoonGetExtraterrestrialIlluminance

SpecMoon == Init /\ [][NextMoon]_vars

----------------------------------------------------------------------------
(* The Moon model's claims, under SpecMoon.                                *)

IsSurge(call) == call.op = "_calculate_opposition_surge"

IsEarthshine(call) == call.op = "_calculate_earthshine_wm2"

IsMoonExo(call) == call.op = "get_extraterrestrial_illuminance"

\* the surge as the specification writes it, with the window |phi_deg| <= 7
SurgeOfSpec(phi_deg) ==
    IF FLe(FAbs(phi_deg), FInt(7))
    THEN FMax(One, FSub(FDec(12700, -1), FMul(FDec(450, -1), FSub(FAbs(phi_deg), One))))
    ELSE One

\* C7: _calculate_opposition_surge returns a factor >= 1.0 for every phase
\* angle, max(1.0, 1.27 - 0.045*(|phi_deg| - 1)) when |phi_deg| <= 7 and 1.0
\* otherwise: above 1.3 at 0 degrees and exactly 1.0 at 8 degrees
C7_SurgeAtLeastOne ==
    IsSurge(cur) =>
        /\ FLe(One, cur.ret)
        /\ cur.ret = SurgeOfSpec(Degrees(cur.args[1]))
        /\ cur.args[1] = Radians(Zero) => FLt(FDec(13000, -1), cur.ret)
        /\ cur.args[1] = Radians(FInt(8)) => cur.ret = One

\* the surge at 8 degrees and then at 0 degrees
C7_Witness ==
    /\ IsSurge(prev) /\ prev.args = <<Radians(FInt(8))>> /\ prev.ret = One
    /\ IsSurge(cur) /\ cur.args = <<Radians(Zero)>> /\ FLt(FDec(13000, -1), cur.ret)

\* C8 as claimed: the Moon's extraterrestrial illuminance is strictly positive
\* for every phase angle up to and including pi, also within the guard window
\* next to pi
C8_StrictlyPositiveUpToPi ==
    (IsMoonExo(cur) /\ FLe(Zero, cur.args[1]) /\ FLe(cur.args[1], PI))
    => FLt(Zero, cur.ret)

\* C11 as claimed: the surge at 7 degrees is strictly greater than the value
\* it takes beyond 7 degrees
C11_StrictDropAtSeven ==
    (/\ IsSurge(prev) /\ prev.args = <<Radians(FInt(7))>>
     /\ IsSurge(cur) /\ FLt(FInt(7), Degrees(cur.args[1])))
    => FLt(cur.ret, prev.ret)

\* C11 as amended: beyond 7 degrees the surge is exactly 1.0, at 7 degrees it
\* is max(1.27 - 0.045*6, 1.0), which is 1.0 as well, and at 6.9 degrees it is
\* above 1.0
C11_CutoffWithoutDrop ==
    IsSurge(cur) =>
        /\ FLt(FInt(7), Degrees(cur.args[1])) => cur.ret = One
        /\ cur.args[1] = Radians(FInt(7)) => cur.ret = One
        /\ cur.args[1] = Radians(MilliDeg(6900)) => FLt(One, cur.ret)

\* the surge at 7 degrees and then just beyond, at 7.001 degrees: 1.0 twice
C11_Witness ==
    /\ IsSurge(prev) /\ prev.args = <<Radians(FInt(7))>> /\ prev.ret = One
    /\ IsSurge(cur) /\ cur.args = <<Radians(MilliDeg(7001))>> /\ cur.ret = One

\* sin(p/2) * tan(p/2) * ln(1 / tan(p/4)), the formula of the claim
SinTanLn(p) ==
    FMul(FMul(Sin(FDivInt(p, 2)), Tan(FDivInt(p, 2))), Ln(FDiv(One, Tan(FDivInt(p, 4)))))

\* its values where the formula is evaluated: outside the guard windows
SinTanLnTable ==
    Tabulated([p \in {phi \in PhaseGrid \cup {FSub(PI, phi) : phi \in PhaseGrid} :
                         FLe(epsilon, phi) /\ FLe(phi, FSub(PI, epsilon))} |->
                  SinTanLn(p)])

\* p is less than 1e-4 rad away from 0 or from pi
InGuardWindow(p) == FLt(p, epsilon) \/ FLt(FSub(PI, epsilon), p)

----------------------------------------------------------------------------
(* scene.py: calculate_illumination, step by step.  A call has a frame     *)
(* with its arguments and the locals assigned so far; a step takes the     *)
(* scene object and the frame and gives the two back, as the step leaves   *)
(* them.                                                                   *)

ObserverLocation(latitude, longitude, elevation_m) ==
    [latitude |-> latitude, longitude |-> longitude, elevation |-> elevation_m]

\* the places the calls are made for: Prague and Cape Town
Places ==
    {<<NorthLatitude, FDec(144378, -1), FInt(200)>>,
     <<SouthLatitude, FDec(184241, -1), Zero>>}

Observers == {ObserverLocation(g[1], g[2], g[3]) : g \in Places}

\* an instant: its Julian date, the Moon's phase angle and its distance
Instant(tt, phi, dist_km) == [tt |-> FInt(tt), phase |-> phi, moon_dist |-> FInt(dist_km)]

\* a day in January just before new Moon, and a night in July with the Moon
\* at a phase angle of 1 rad
Times ==
    {Instant(JanuaryDay, FSub(PI, FDec(2, -1)), 356500), Instant(JulyNight, One, 406700)}

Turbidities == {FInt(3), FInt(30)}

SunExoTable ==
    Tabulated([g \in {SunModel} \X {time.tt : time \in Times} |->
                  sun_get_extraterrestrial_illuminance(g[1], [tt |-> g[2]])])

SunExo(self, time) == SunExoTable[<<self, time.tt>>]

\* max(0.0, np.sin(np.radians(altitude))), the projection to the horizontal
ProjectionTable ==
    Tabulated([altitude_deg \in AltitudeGrid |-> FMax(Zero, Sin(Radians(altitude_deg)))])

PhaseDegreesTable == Tabulated([phi \in PhaseGrid |-> Degrees(phi)])

EnterFrame(latitude, longitude, elevation_m, time, turbidity) ==
    [pc |-> "sun", observer |-> ObserverLocation(latitude, longitude, elevation_m),
     time |-> time, turbidity |-> turbidity]

\* the arguments the calls on the scene are made with
Calls == {IlluminationScene} \X Observers \X Times \X Turbidities

\* the locals of the Sun's part, as the arguments sun_alt and sun_exo give
\* them
SunLocals(self, turbidity, sun_alt, sun_exo) ==
    [sun_alt |-> sun_alt,
     sun_surface |->
         FMul(FMul(sun_exo, Transmittance(self.atmos_model, sun_alt, turbidity)),
              ProjectionTable[sun_alt])]

sun_locals(self, observer, time, turbidity) ==
    SunLocals(self, turbidity, calculate_sun_position(self.engine, observer, time),
              SunExo(self.sun_model, time))

SunLocalsTable == Tabulated([g \in Calls |-> sun_locals(g[1], g[2], g[3], g[4])])

SunFrame(frame, locals) ==
    [pc |-> "moon", observer |-> frame.observer, time |-> frame.time,
     turbidity |-> frame.turbidity, sun_alt |-> locals.sun_alt,
     sun_surface |-> locals.sun_surface]

sun_step(self, frame) ==
    <<self, SunFrame(frame, SunLocalsTable[<<self, frame.observer, frame.time,
                                             frame.turbidity>>])>>

MoonLocals(self, turbidity, moon_alt, moon_exo) ==
    [moon_alt |-> moon_alt, moon_exo |-> moon_exo,
     moon_surface |->
         FMul(FMul(moon_exo, Transmittance(self.atmos_model, moon_alt, turbidity)),
              ProjectionTable[moon_alt])]

moon_locals(self, observer, time, turbidity) ==
    MoonLocals(self, turbidity, calculate_moon_position(self.engine, observer, time),
               MoonExo(self.moon_model, time))

MoonLocalsTable == Tabulated([g \in Calls |-> moon_locals(g[1], g[2], g[3], g[4])])

MoonFrame(frame, locals) ==
    [pc |-> "stars", observer |-> frame.observer, time |-> frame.time,
     turbidity |-> frame.turbidity, sun_alt |-> frame.sun_alt,
     sun_surface |-> frame.sun_surface, moon_alt |-> locals.moon_alt,
     moon_exo |-> locals.moon_exo, moon_surface |-> locals.moon_surface]

moon_step(self, frame) ==
    <<self, MoonFrame(frame, MoonLocalsTable[<<self, frame.observer, frame.time,
                                               frame.turbidity>>])>>

\* stars_surface for the transmittance at altitude_deg
stars_surface_at(self, altitude_deg, turbidity) ==
    FMul(self.STAR_ILLUMINANCE_EXO_LUX,
         Transmittance(self.atmos_model, altitude_deg, turbidity))

StarsSurfaceTable ==
    Tabulated([g \in {IlluminationScene} \X AltitudeGrid \X Turbidities |->
                  stars_surface_at(g[1], g[2], g[3])])

StarsFrame(frame, stars_surface) ==
    [pc |-> "total", observer |-> frame.observer, time |-> frame.time,
     turbidity |-> frame.turbidity, sun_alt |-> frame.sun_alt,
     sun_surface |-> frame.sun_surface, moon_alt |-> frame.moon_alt,
     moon_exo |-> frame.moon_exo, moon_surface |-> frame.moon_surface,
     stars_surface |-> stars_surface]

\* the starlight attenuated along the line of sight to the Moon
stars_step_at_moon_altitude(self, frame) ==
    <<self, StarsFrame(frame, StarsSurfaceTable[<<self, frame.moon_alt, frame.turbidity>>])>>

\* the starlight constant attenuated in place: self.STAR_ILLUMINANCE_EXO_LUX *=
\* stars_trans
stars_step_attenuating_in_place(self, frame) ==
    <<[self EXCEPT !.STAR_ILLUMINANCE_EXO_LUX =
           FMul(@, Transmittance(self.atmos_model, FInt(90), frame.turbidity))],
      StarsFrame(frame, stars_surface_at(self, FInt(90), frame.turbidity))>>

stars_step(self, frame) ==
    <<self, StarsFrame(frame, StarsSurfaceTable[<<self, FInt(90), frame.turbidity>>])>>

\* the returned dict
Result(frame, total_lux, moon_phase) ==
    [total_lux |-> total_lux, sun_lux |-> frame.sun_surface,
     moon_lux |-> frame.moon_surface, stars_lux |-> frame.stars_surface,
     sun_altitude |-> frame.sun_alt, moon_altitude |-> frame.moon_alt,
     moon_phase_angle |-> PhaseDegreesTable[moon_phase]]

DoneFrame(frame, total_lux, moon_phase) ==
    [pc |-> "done", observer |-> frame.observer, time |-> frame.time,
     turbidity |-> frame.turbidity, moon_exo |-> frame.moon_exo,
     ret |-> Result(frame, total_lux, moon_phase)]

\* the total of the Sun and the Moon only
total_step_without_stars(self, frame) ==
    <<self, DoneFrame(frame, FAdd(frame.sun_surface, frame.moon_surface),
                      calculate_phase_angle(self.moon_model, frame.time))>>

total_step(self, frame) ==
    <<self, DoneFrame(frame,
                      FAdd(FAdd(frame.sun_surface, frame.moon_surface), frame.stars_surface),
                      calculate_phase_angle(self.moon_model, frame.time))>>

\* the total and the return, after the step that left the scene and the
\* frame in `after`
total_after(after) == total_step(after[1], after[2])

\* the step a frame is at
Step(self, frame) ==
    CASE frame.pc = "sun" -> sun_step(self, frame)
      [] frame.pc = "moon" -> moon_step(self, frame)
      [] frame.pc = "stars" -> total_after(stars_step(self, frame))

\* the steps in sequence, up to the return
RECURSIVE Finish(_)
Finish(after) ==
    IF after[2].pc = "done" THEN after ELSE Finish(Step(after[1], after[2]))

calculate_illumination(self, latitude, longitude, elevation_m, time, turbidity) ==
    Finish(<<self, EnterFrame(latitude, longitude, elevation_m, time, turbidity)>>)[2].ret

\* the results of the calls made alone on a scene as constructed
AloneTable ==
    Tabulated([g \in Places \X Times \X Turbidities |->
                  calculate_illumination(IlluminationScene, g[1][1], g[1][2], g[1][3],
                                         g[2], g[3])])

----------------------------------------------------------------------------
(* The threads calling calculate_illumination on the one scene.  A thread  *)
(* enters with its arguments, takes the steps that call into the models    *)
(* in order, interleaved with the steps of the other threads, and its      *)
(* caller collects the result.                                             *)

\* the scene and the frame of thread th as a step leaves them
Leaves(th, after) ==
    /\ scene' = after[1]
    /\ frames' = [frames EXCEPT ![th] = after[2]]
    /\ UNCHANGED <<cur, prev>>

Call(th) ==
    /\ frames[th].pc = "idle"
    /\ \E g \in Places, time \in Times, turbidity \in Turbidities :
           Leaves(th, <<scene, EnterFrame(g[1], g[2], g[3], time, turbidity)>>)

SunStep(th) ==
    /\ frames[th].pc = "sun"
    /\ Leaves(th, sun_step(scene, frames[th]))

MoonStep(th) ==
    /\ frames[th].pc = "moon"
    /\ Leaves(th, moon_step(scene, frames[th]))

\* the total and the return read the locals only: one step with the stars
StarsAndTotalStep(th) ==
    /\ frames[th].pc = "stars"
    /\ Leaves(th, total_after(stars_step(scene, frames[th])))

Collect(th) ==
    /\ frames[th].pc = "done"
    /\ Leaves(th, <<scene, IdleFrame>>)

Next ==
    \E th \in ThreadIds :
        \/ Call(th)
        \/ SunStep(th)
        \/ MoonStep(th)
        \/ StarsAndTotalStep(th)
        \/ Collect(th)

Spec == Init /\ [][Next]_vars

----------------------------------------------------------------------------
(* The scene's claims, under Spec.                                         *)

Done(th) == frames[th].pc = "done"

NonNegative(a) == a.k # "nan" /\ FLe(Zero, a)

\* C1: the returned total_lux is exactly sun_lux + moon_lux + stars_lux
C1_TotalIsSumOfComponents ==
    \A th \in ThreadIds :
        Done(th) =>
            frames[th].ret.total_lux =
                FAdd(FAdd(frames[th].ret.sun_lux, frames[th].ret.moon_lux),
                     frames[th].ret.stars_lux)

\* a result with the three components above 0
C1_Witness ==
    \E th \in ThreadIds :
        /\ Done(th)
        /\ FLt(Zero, frames[th].ret.sun_lux)
        /\ FLt(Zero, frames[th].ret.moon_lux)
        /\ FLt(Zero, frames[th].ret.stars_lux)
        /\ FLt(frames[th].ret.sun_lux, frames[th].ret.total_lux)

\* C3: for turbidity >= 0 the four illuminance fields of the result are >= 0,
\* a body at or below the horizon contributes 0, and the Moon's
\* extraterrestrial illuminance behind moon_lux is >= 0 for a phase angle in
\* [0, pi]
C3_NonNegative ==
    \A th \in ThreadIds :
        (Done(th) /\ FLe(Zero, frames[th].turbidity)) =>
            /\ NonNegative(frames[th].ret.total_lux)
            /\ NonNegative(frames[th].ret.sun_lux)
            /\ NonNegative(frames[th].ret.moon_lux)
            /\ NonNegative(frames[th].ret.stars_lux)
            /\ FLe(frames[th].ret.sun_altitude, Zero) => frames[th].ret.sun_lux = Zero
            /\ FLe(frames[th].ret.moon_altitude, Zero) => frames[th].ret.moon_lux = Zero
            /\ (FLe(Zero, frames[th].time.phase) /\ FLe(frames[th].time.phase, PI))
               => NonNegative(frames[th].moon_exo)

\* a result with the Sun below the horizon and the Moon above it, just
\* before new Moon
C3_Witness ==
    \E th \in ThreadIds :
        /\ Done(th)
        /\ FLt(frames[th].ret.sun_altitude, Zero) /\ frames[th].ret.sun_lux = Zero
        /\ FLt(Zero, frames[th].ret.moon_altitude) /\ FLt(Zero, frames[th].ret.moon_lux)
        /\ frames[th].time.phase = FSub(PI, FDec(2, -1))

\* the result of the call of a frame when it is made alone
Alone(frame) ==
    AloneTable[<<<<frame.observer.latitude, frame.observer.longitude,
                   frame.observer.elevation>>, frame.time, frame.turbidity>>]

\* C9: no step writes a field of the scene or of its models, and every call,
\* however its steps interleave with those of other calls, returns what it
\* returns when it is made alone with the same arguments
C9_Stateless ==
    /\ scene = IlluminationScene
    /\ \A th \in ThreadIds : Done(th) => frames[th].ret = Alone(frames[th])

\* a call has returned while a call with another observer, time and
\* turbidity, which has taken its first two steps, is in progress
C9_Witness ==
    \E th \in ThreadIds, other \in ThreadIds :
        /\ Done(th) /\ frames[other].pc = "stars"
        /\ frames[th].observer # frames[other].observer
        /\ frames[th].time # frames[other].time
        /\ frames[th].turbidity # frames[other].turbidity
        /\ frames[th].ret = Alone(frames[th])

\* C13: stars_lux is 0.0002714 lux times get_transmittance(90, turbidity), and
\* two calls with the same turbidity return the same stars_lux for any
\* observers and times
C13_StarsDependOnTurbidityOnly ==
    /\ \A th \in ThreadIds :
           Done(th) =>
               frames[th].ret.stars_lux =
                   FMul(FDec(27140, -2),
                        Transmittance(AtmosphereModel, FInt(90), frames[th].turbidity))
    /\ \A th \in ThreadIds, other \in ThreadIds :
           (Done(th) /\ Done(other) /\ frames[th].turbidity = frames[other].turbidity)
           => frames[th].ret.stars_lux = frames[other].ret.stars_lux

\* two results for the same turbidity, with another observer, time, Sun
\* altitude and Moon altitude, and the same stars_lux
C13_Witness ==
    \E th \in ThreadIds, other \in ThreadIds :
        /\ Done(th) /\ Done(other)
        /\ frames[th].turbidity = frames[other].turbidity
        /\ frames[th].observer # frames[other].observer
        /\ frames[th].time # frames[other].time
        /\ frames[th].ret.sun_altitude # frames[other].ret.sun_altitude
        /\ frames[th].ret.moon_altitude # frames[other].ret.moon_altitude
        /\ frames[th].ret.stars_lux = frames[other].ret.stars_lux
        /\ FLt(Zero, frames[th].ret.stars_lux)

====
